---- MODULE Spec2Model ----
(***************************************************************************)
(* Model of app/lib/actions/auth-actions.ts: the five server actions       *)
(* login, register, logout, getCurrentUser and getSession.                 *)
(*                                                                         *)
(* Strings are TLA+ strings; a character is a string of length one.  A     *)
(* nullable value is a sequence: <<>> is null/undefined, <<v>> is v.       *)
(* Every interaction with the auth provider (createClient and the          *)
(* supabase.auth.* calls) is appended to `calls` with the reply it got.    *)
(*                                                                         *)
(* An action is an async function: it runs up to its next `await`, and     *)
(* other invocations run while it waits.  Each variable maps an invocation *)
(* to its part of the state.                                               *)
(***************************************************************************)
EXTENDS Integers, Sequences, FiniteSets

VARIABLES pc, op, request, calls, result

vars == <<pc, op, request, calls, result>>

-----------------------------------------------------------------------------
(* Bounds of the explored inputs *)

MaxEmailLen == 5
MaxTailLen == 3

-----------------------------------------------------------------------------
(* Strings *)

Null == <<>>
Some(v) == <<v>>

CharAt(s, i) == SubSeq(s, i, i)

\* String.prototype.includes
Includes(s, sub) ==
    \E i \in 0..(Len(s) - Len(sub)) : SubSeq(s, i + 1, i + Len(sub)) = sub

UpperLetters == "ABCDEFGHIJKLMNOPQRSTUVWXYZ"
LowerLetters == "abcdefghijklmnopqrstuvwxyz"
Digits == "0123456789"

CharsOf(s) == { CharAt(s, i) : i \in 1..Len(s) }

\* [a-z], [A-Z] and \d
LowerCaseChars == CharsOf(LowerLetters)
UpperCaseChars == CharsOf(UpperLetters)
DigitChars == CharsOf(Digits)

LowerChar(c) ==
    IF \E i \in 1..Len(UpperLetters) : CharAt(UpperLetters, i) = c
    THEN CharAt(LowerLetters, CHOOSE i \in 1..Len(UpperLetters) : CharAt(UpperLetters, i) = c)
    ELSE c

\* String.prototype.toLowerCase
RECURSIVE ToLowerCase(_)
ToLowerCase(s) ==
    IF Len(s) = 0 THEN ""
    ELSE LowerChar(CharAt(s, 1)) \o ToLowerCase(SubSeq(s, 2, Len(s)))

\* All strings over the characters `chars` of length at most n
RECURSIVE StringsUpTo(_, _)
StringsUpTo(chars, n) ==
    IF n = 0 THEN {""}
    ELSE LET shorter == StringsUpTo(chars, n - 1)
         IN  shorter \cup { s \o c : s \in shorter, c \in chars }

-----------------------------------------------------------------------------
(* Regular expressions of the module *)

\* the vertical tab, U+000B
VerticalTab == ""

\* \s (the characters of the class a TLA+ string can hold)
WhiteSpace == {" ", "\t", "\n", VerticalTab, "\f", "\r"}

\* the characters `.` does not match
LineTerminators == {"\n", "\r"}

\* [^\s@]
NotSpaceNorAt(c) == c \notin WhiteSpace /\ c # "@"

\* emailRegex.test(s) with emailRegex = /^[^\s@]+@[^\s@]+\.[^\s@]+$/
emailRegexTestNoTld(s) ==
    \E i \in 1..Len(s) :
        /\ CharAt(s, i) = "@"
        /\ i >= 2
        /\ i < Len(s)
        /\ \A k \in (1..Len(s)) \ {i} : NotSpaceNorAt(CharAt(s, k))

emailRegexTest(s) ==
    \E i, j \in 1..Len(s) :
        /\ CharAt(s, i) = "@"
        /\ CharAt(s, j) = "."
        /\ i >= 2
        /\ j >= i + 2
        /\ j < Len(s)
        /\ \A k \in (1..Len(s)) \ {i, j} : NotSpaceNorAt(CharAt(s, k))

\* [!@#$%^&*()_+\-=[\]{};':"\\|,.<>/?]
SpecialChars ==
    {"!", "@", "#", "$", "%", "^", "&", "*", "(", ")", "_", "+", "-", "=",
     "[", "]", "{", "}", ";", "'", ":", "\"", "\\", "|", ",", ".", "<", ">",
     "/", "?"}

\* (?=.*[class]) at the start of the string: some character of the class,
\* preceded only by characters that `.` matches
LookAhead(s, class) ==
    \E k \in 1..Len(s) :
        /\ CharAt(s, k) \in class
        /\ \A m \in 1..(k - 1) : CharAt(s, m) \notin LineTerminators

MinPasswordLength == 8

\* strongPassword.test(s)
strongPasswordTestNoSpecial(s) ==
    /\ LookAhead(s, LowerCaseChars)
    /\ LookAhead(s, UpperCaseChars)
    /\ LookAhead(s, DigitChars)
    /\ Len(s) >= MinPasswordLength
    /\ \A k \in 1..Len(s) : CharAt(s, k) \notin LineTerminators

strongPasswordTest(s) ==
    /\ LookAhead(s, LowerCaseChars)
    /\ LookAhead(s, UpperCaseChars)
    /\ LookAhead(s, DigitChars)
    /\ LookAhead(s, SpecialChars)
    /\ Len(s) >= MinPasswordLength
    /\ \A k \in 1..Len(s) : CharAt(s, k) \notin LineTerminators

-----------------------------------------------------------------------------
(* Fixed messages *)

MsgRequired == "Email and password are required."
MsgValidEmail == "Please enter a valid email address."
MsgInvalidLogin == "Invalid email or password."
MsgCouldNotAuthenticate == "Could not authenticate user. Please try again."
MsgPasswordsDoNotMatch == "Passwords do not match"
MsgStrength == "Password must be at least 8 characters and include uppercase, lowercase, number, and special character."
MsgRegistrationFailed == "Registration failed. Please try again."
MsgEmailInUse == "Email is already in use or invalid."

-----------------------------------------------------------------------------
(* Results and provider replies *)

\* the action returned `{ error: e }`
ReturnError(e) == [outcome |-> "return", value |-> e]
\* the action returned the bare value v (getCurrentUser, getSession)
ReturnValue(v) == [outcome |-> "return", value |-> v]
\* the action has not finished
NoResult == [outcome |-> "none", value |-> Null]
\* the action's promise rejected
Threw == [outcome |-> "throw", value |-> Null]

\* a call of the provider and the reply it got
Call(fn, args, reply) == [fn |-> fn, args |-> args, reply |-> reply]

\* the value of await supabase.auth.<fn>(...): { data: { user, session }, error }
NoData == [user |-> Null, session |-> Null]
Resolved(error, data) == [status |-> "resolved", error |-> error, data |-> data]
\* the promise is not settled yet
Pending == [status |-> "pending", error |-> Null, data |-> NoData]
\* the awaited promise rejected
Rejected == [status |-> "rejected", error |-> Null, data |-> NoData]
Fulfilled == Resolved(Null, NoData)

\* an error object: its message is a string, or is missing
ErrorWith(message) == [message |-> message]

-----------------------------------------------------------------------------
(* Inputs: form data and what the provider can answer *)

EmailChars == {"a", "@", ".", " ", VerticalTab}
Emails == StringsUpTo(EmailChars, MaxEmailLen)

LoginPasswords == {"", "x", "Abc123!@"}

PasswordPrefixes == {"", "Abcde", "abcde", "ABCDE"}
PasswordChars == {"a", "A", "1", "!", "~", "\n"}
Passwords ==
    { p \o t : p \in PasswordPrefixes, t \in StringsUpTo(PasswordChars, MaxTailLen) }

\* confirmPassword: the password again, or something else
ConfirmKinds == {"same", "empty", "other"}
ConfirmPassword(password, kind) ==
    CASE kind = "same" -> password
      [] kind = "empty" -> ""
      [] kind = "other" -> "Abcde1!a"

RegisterEmails == {"", "a@b.com", "not an email"}
Names == {"", "A"}

LoginFormData ==
    { [email |-> e, password |-> p] : e \in Emails, p \in LoginPasswords }

RegisterFormData ==
    { [email |-> e, password |-> p, confirmPassword |-> ConfirmPassword(p, k),
       name |-> n] :
        e \in RegisterEmails, p \in Passwords, k \in ConfirmKinds, n \in Names }

ProviderMessages ==
    {"", "Invalid login credentials", "AuthApiError: Invalid login credentials (400)",
     "invalid login credentials", "Email not confirmed", "User already registered",
     "Unable to validate email address: invalid format", "EMAIL rate limit exceeded",
     "Database error saving new user"}

\* the `error` of a reply: null, or an error object with or without a message
ProviderErrors ==
    {Null} \cup { Some(ErrorWith(Some(m))) : m \in ProviderMessages }
           \cup { Some(ErrorWith(Null)) }

\* await createClient()
ClientReplies == {Fulfilled, Rejected}

\* await supabase.auth.signInWithPassword / signUp / signOut
AuthReplies == {Rejected} \cup { Resolved(e, NoData) : e \in ProviderErrors }

Users == {"user-1"}
Sessions == {"session-1"}

\* await supabase.auth.getUser()
UserReplies ==
    {Rejected} \cup { Resolved(e, [user |-> u, session |-> Null]) :
                        e \in {Null, Some(ErrorWith(Some("Auth session missing!")))},
                        u \in {Null} \cup { Some(x) : x \in Users } }

\* await supabase.auth.getSession()
SessionReplies ==
    {Rejected} \cup { Resolved(e, [user |-> Null, session |-> s]) :
                        e \in {Null, Some(ErrorWith(Some("Auth session missing!")))},
                        s \in {Null} \cup { Some(x) : x \in Sessions } }

-----------------------------------------------------------------------------
(* Form data of the runs with two invocations in flight *)

LoginSamples ==
    { [email |-> e, password |-> p] :
        e \in {"", "a@a", "a@a.a"}, p \in {"", "x"} }

RegisterSamples ==
    { [email |-> e, password |-> p, confirmPassword |-> ConfirmPassword(p, k),
       name |-> "A"] :
        e \in {"", "a@b.com"}, p \in {"a", "Abcde1aa", "Abcde1!a", "Abcde!\n1"},
        k \in {"same", "other"} }

-----------------------------------------------------------------------------
(* The pieces of the server actions *)

\* login, lines 8-15: null when the data passes, else the message
loginValidateBothMissing(data) ==
    IF data.email = "" /\ data.password = "" THEN Some(MsgRequired)
    ELSE IF ~emailRegexTest(data.email) THEN Some(MsgValidEmail)
    ELSE Null

loginValidate(data) ==
    IF data.email = "" \/ data.password = "" THEN Some(MsgRequired)
    ELSE IF ~emailRegexTest(data.email) THEN Some(MsgValidEmail)
    ELSE Null

\* login, lines 24-33, given the `error` of the sign-in reply;
\* error.message.includes throws when the error has no message
loginResult(error) ==
    IF error = Null THEN ReturnError(Null)
    ELSE IF error[1].message = Null THEN Threw
    ELSE IF Includes(error[1].message[1], "Invalid login credentials")
         THEN ReturnError(Some(MsgInvalidLogin))
    ELSE ReturnError(Some(MsgCouldNotAuthenticate))

\* register, lines 37-46: null when the data passes, else the message
registerValidateStrengthFirst(data) ==
    IF ~strongPasswordTest(data.password) THEN Some(MsgStrength)
    ELSE IF data.password # data.confirmPassword THEN Some(MsgPasswordsDoNotMatch)
    ELSE Null

registerValidate(data) ==
    IF data.password # data.confirmPassword THEN Some(MsgPasswordsDoNotMatch)
    ELSE IF ~strongPasswordTest(data.password) THEN Some(MsgStrength)
    ELSE Null

\* register, lines 59-69, given the `error` of the sign-up reply
registerResultCaseSensitive(error) ==
    IF error = Null THEN ReturnError(Null)
    ELSE IF /\ error[1].message # Null
            /\ error[1].message[1] # ""
            /\ Includes(error[1].message[1], "email")
         THEN ReturnError(Some(MsgEmailInUse))
    ELSE ReturnError(Some(MsgRegistrationFailed))

registerResult(error) ==
    IF error = Null THEN ReturnError(Null)
    ELSE IF /\ error[1].message # Null
            /\ error[1].message[1] # ""
            /\ Includes(ToLowerCase(error[1].message[1]), "email")
         THEN ReturnError(Some(MsgEmailInUse))
    ELSE ReturnError(Some(MsgRegistrationFailed))

\* logout, lines 75-78: error.message as it is (undefined when the error
\* has none)
logoutResult(error) ==
    IF error # Null THEN ReturnError(error[1].message)
    ELSE ReturnError(Null)

-----------------------------------------------------------------------------
(* The state machine *)

\* the invocations that can be in flight together
Slots == {"A", "B"}
\* the invocation of the runs that take one request at a time
SingleSlot == {"A"}

NoRequest == <<>>

Init ==
    /\ pc = [s \in Slots |-> "idle"]
    /\ op = [s \in Slots |-> "none"]
    /\ request = [s \in Slots |-> NoRequest]
    /\ calls = [s \in Slots |-> <<>>]
    /\ result = [s \in Slots |-> NoResult]

\* invocation s is called with `data`: either `refusal` (a message) is
\* returned at once, or createClient() is called and awaited
Start(s, name, data, refusal) ==
    /\ pc[s] = "idle"
    /\ op' = [op EXCEPT ![s] = name]
    /\ request' = [request EXCEPT ![s] = data]
    /\ IF refusal # Null
       THEN /\ pc' = [pc EXCEPT ![s] = "done"]
            /\ calls' = [calls EXCEPT ![s] = <<>>]
            /\ result' = [result EXCEPT ![s] = ReturnError(refusal)]
       ELSE /\ pc' = [pc EXCEPT ![s] = "awaitClient"]
            /\ calls' = [calls EXCEPT ![s] = <<Call("createClient", <<>>, Pending)>>]
            /\ result' = [result EXCEPT ![s] = NoResult]

\* await createClient() settles: a rejection leaves the action, else the
\* provider function `fn` is called with `args` and awaited
ClientSettles(s, name, fn, args) ==
    /\ pc[s] = "awaitClient"
    /\ op[s] = name
    /\ \E reply \in ClientReplies :
         LET c1 == Call("createClient", <<>>, reply)
         IN  IF reply.status = "rejected"
             THEN /\ pc' = [pc EXCEPT ![s] = "done"]
                  /\ calls' = [calls EXCEPT ![s] = <<c1>>]
                  /\ result' = [result EXCEPT ![s] = Threw]
             ELSE /\ pc' = [pc EXCEPT ![s] = "awaitAuth"]
                  /\ calls' = [calls EXCEPT ![s] = <<c1, Call(fn, args, Pending)>>]
                  /\ UNCHANGED result
    /\ UNCHANGED <<op, request>>

\* the awaited provider call settles with `reply`: a rejection leaves the
\* action, else it returns `value`
AuthSettles(s, name, reply, value) ==
    /\ pc[s] = "awaitAuth"
    /\ op[s] = name
    /\ pc' = [pc EXCEPT ![s] = "done"]
    /\ calls' = [calls EXCEPT ![s][2].reply = reply]
    /\ result' = [result EXCEPT ![s] =
                     IF reply.status = "rejected" THEN Threw ELSE value]
    /\ UNCHANGED <<op, request>>

\* login, lines 6-17
Login(s, forms) ==
    /\ pc[s] = "idle"
    /\ \E data \in forms : Start(s, "login", data, loginValidate(data))

\* login, lines 17-22
LoginClient(s) ==
    /\ pc[s] = "awaitClient"
    /\ ClientSettles(s, "login", "signInWithPassword",
                     <<request[s].email, request[s].password>>)

\* login, lines 19-34
LoginSettles(s) ==
    /\ pc[s] = "awaitAuth"
    /\ op[s] = "login"
    /\ \E reply \in AuthReplies :
        AuthSettles(s, "login", reply, loginResult(reply.error))

\* register, lines 36-48
Register(s, forms) ==
    /\ pc[s] = "idle"
    /\ \E data \in forms : Start(s, "register", data, registerValidate(data))

\* register, lines 48-57
RegisterClient(s) ==
    /\ pc[s] = "awaitClient"
    /\ ClientSettles(s, "register", "signUp",
                     <<request[s].email, request[s].password, request[s].name>>)

\* register, lines 49-70
RegisterSettles(s) ==
    /\ pc[s] = "awaitAuth"
    /\ op[s] = "register"
    /\ \E reply \in AuthReplies :
        AuthSettles(s, "register", reply, registerResult(reply.error))

\* logout, lines 72-73
Logout(s) ==
    /\ pc[s] = "idle"
    /\ Start(s, "logout", NoRequest, Null)

\* logout, lines 73-74
LogoutClient(s) ==
    /\ pc[s] = "awaitClient"
    /\ ClientSettles(s, "logout", "signOut", <<>>)

\* logout, lines 74-79
LogoutSettles(s) ==
    /\ pc[s] = "awaitAuth"
    /\ op[s] = "logout"
    /\ \E reply \in AuthReplies :
        AuthSettles(s, "logout", reply, logoutResult(reply.error))

\* getCurrentUser, lines 81-82
GetCurrentUser(s) ==
    /\ pc[s] = "idle"
    /\ Start(s, "getCurrentUser", NoRequest, Null)

\* getCurrentUser, lines 82-83
GetCurrentUserClient(s) ==
    /\ pc[s] = "awaitClient"
    /\ ClientSettles(s, "getCurrentUser", "getUser", <<>>)

\* getCurrentUser, lines 83-85
GetCurrentUserSettles(s) ==
    /\ pc[s] = "awaitAuth"
    /\ op[s] = "getCurrentUser"
    /\ \E reply \in UserReplies :
        AuthSettles(s, "getCurrentUser", reply, ReturnValue(reply.data.user))

\* getSession, lines 87-88
GetSession(s) ==
    /\ pc[s] = "idle"
    /\ Start(s, "getSession", NoRequest, Null)

\* getSession, lines 88-89
GetSessionClient(s) ==
    /\ pc[s] = "awaitClient"
    /\ ClientSettles(s, "getSession", "getSession", <<>>)

\* getSession, lines 89-91
GetSessionSettles(s) ==
    /\ pc[s] = "awaitAuth"
    /\ op[s] = "getSession"
    /\ \E reply \in SessionReplies :
        AuthSettles(s, "getSession", reply, ReturnValue(reply.data.session))

\* the caller has the result; the next request starts from a fresh context
NextRequest(s) ==
    /\ pc[s] = "done"
    /\ pc' = [pc EXCEPT ![s] = "idle"]
    /\ op' = [op EXCEPT ![s] = "none"]
    /\ request' = [request EXCEPT ![s] = NoRequest]
    /\ calls' = [calls EXCEPT ![s] = <<>>]
    /\ result' = [result EXCEPT ![s] = NoResult]

\* two invocations in flight, on sample form data
Next ==
    \E s \in Slots :
        \/ Login(s, LoginSamples)
        \/ LoginClient(s)
        \/ LoginSettles(s)
        \/ Register(s, RegisterSamples)
        \/ RegisterClient(s)
        \/ RegisterSettles(s)
        \/ Logout(s)
        \/ LogoutClient(s)
        \/ LogoutSettles(s)
        \/ GetCurrentUser(s)
        \/ GetCurrentUserClient(s)
        \/ GetCurrentUserSettles(s)
        \/ GetSession(s)
        \/ GetSessionClient(s)
        \/ GetSessionSettles(s)
        \/ NextRequest(s)

Spec == Init /\ [][Next]_vars

\* one invocation at a time, on all the form data within the bounds
NextSingle ==
    \E s \in SingleSlot :
        \/ Login(s, LoginFormData)
        \/ LoginClient(s)
        \/ LoginSettles(s)
        \/ Register(s, RegisterFormData)
        \/ RegisterClient(s)
        \/ RegisterSettles(s)
        \/ Logout(s)
        \/ LogoutClient(s)
        \/ LogoutSettles(s)
        \/ GetCurrentUser(s)
        \/ GetCurrentUserClient(s)
        \/ GetCurrentUserSettles(s)
        \/ GetSession(s)
        \/ GetSessionClient(s)
        \/ GetSessionSettles(s)
        \/ NextRequest(s)

SpecSingle == Init /\ [][NextSingle]_vars

-----------------------------------------------------------------------------
(* The properties.  What a claim calls a pattern or a policy is written    *)
(* here from the claim's words, apart from the operators that model the    *)
(* code.                                                                   *)

Finished(s, name) == pc[s] = "done" /\ op[s] = name

\* the calls of `fn` among the provider calls invocation s made
CallsOf(s, fn) == { i \in 1..Len(calls[s]) : calls[s][i].fn = fn }

\* a non-empty run of characters that are neither white space nor "@"
PatternPart(s) ==
    /\ Len(s) >= 1
    /\ \A k \in 1..Len(s) : SubSeq(s, k, k) \notin {" ", "\t", "\n", VerticalTab, "\f", "\r", "@"}

\* s is  part "@" part "." part
MatchesEmailPattern(s) ==
    \E a, b \in 1..Len(s) :
        /\ a < b
        /\ PatternPart(SubSeq(s, 1, a - 1))
        /\ SubSeq(s, a, a) = "@"
        /\ PatternPart(SubSeq(s, a + 1, b - 1))
        /\ SubSeq(s, b, b) = "."
        /\ PatternPart(SubSeq(s, b + 1, Len(s)))

Has(s, class) == \E k \in 1..Len(s) : SubSeq(s, k, k) \in class

\* the stated policy: at least 8 characters, an uppercase letter, a lowercase
\* letter, a digit and a symbol of the fixed set
PolicySatisfied(s) ==
    /\ Len(s) >= 8
    /\ Has(s, UpperCaseChars)
    /\ Has(s, LowerCaseChars)
    /\ Has(s, DigitChars)
    /\ Has(s, SpecialChars)

\* the strength pattern: the policy, on one line
MatchesStrengthPattern(s) ==
    /\ PolicySatisfied(s)
    /\ ~Has(s, {"\n", "\r"})

\* the message contains "email" in any letter case
ContainsEmailAnyCase(s) ==
    \E i \in 1..(Len(s) - 4) :
        /\ SubSeq(s, i, i) \in {"e", "E"}
        /\ SubSeq(s, i + 1, i + 1) \in {"m", "M"}
        /\ SubSeq(s, i + 2, i + 2) \in {"a", "A"}
        /\ SubSeq(s, i + 3, i + 3) \in {"i", "I"}
        /\ SubSeq(s, i + 4, i + 4) \in {"l", "L"}

\* invocation s made the provider call `fn` and its reply carried an error
ProviderReturnedError(s, fn) ==
    /\ Len(calls[s]) = 2
    /\ calls[s][2].fn = fn
    /\ calls[s][2].reply.status = "resolved"
    /\ calls[s][2].reply.error # Null

ProviderError(s) == calls[s][2].reply.error[1]

\* a provider call of invocation s was rejected or its reply carried an error
SomethingFailed(s) ==
    \E i \in 1..Len(calls[s]) :
        calls[s][i].reply.status = "rejected" \/ calls[s][i].reply.error # Null

\* C1: a login with an empty email or an empty password returns exactly
\* {error: 'Email and password are required.'} and makes no provider call.
C1_LoginRequired ==
    \A s \in Slots :
        (Finished(s, "login") /\ (request[s].email = "" \/ request[s].password = ""))
            => (result[s] = ReturnError(Some(MsgRequired)) /\ calls[s] = <<>>)

\* C1 witness: a login with a well-formed email and an empty password was refused.
C1_Witness ==
    \E s \in Slots :
        /\ Finished(s, "login")
        /\ request[s].email = "a@a.a"
        /\ request[s].password = ""
        /\ result[s] = ReturnError(Some(MsgRequired))
        /\ calls[s] = <<>>

\* C2 as stated: a login whose email does not match the basic pattern returns
\* 'Please enter a valid email address.' and makes no provider call, whatever
\* the password is, the empty email and the empty password included.
C2_Original ==
    \A s \in Slots :
        (Finished(s, "login") /\ ~MatchesEmailPattern(request[s].email))
            => (result[s] = ReturnError(Some(MsgValidEmail)) /\ calls[s] = <<>>)

\* C2 amended: a login with a non-empty email and a non-empty password whose
\* email does not match the basic pattern returns 'Please enter a valid email
\* address.' and makes no provider call.
C2_LoginValidEmail ==
    \A s \in Slots :
        (/\ Finished(s, "login")
         /\ request[s].email # ""
         /\ request[s].password # ""
         /\ ~MatchesEmailPattern(request[s].email))
            => (result[s] = ReturnError(Some(MsgValidEmail)) /\ calls[s] = <<>>)

\* C2 witness: a login whose email has a vertical tab for its local part, and
\* a password, was refused as not a valid email address.
C2_Witness ==
    \E s \in Slots :
        /\ Finished(s, "login")
        /\ request[s].email = VerticalTab \o "@a.a"
        /\ request[s].password = "x"
        /\ result[s] = ReturnError(Some(MsgValidEmail))
        /\ calls[s] = <<>>

\* C3: a registration whose password differs from confirmPassword returns
\* exactly {error: 'Passwords do not match'} and makes no provider call,
\* whatever the password's strength, the email and the name.
C3_RegisterMismatch ==
    \A s \in Slots :
        (Finished(s, "register") /\ request[s].password # request[s].confirmPassword)
            => (result[s] = ReturnError(Some(MsgPasswordsDoNotMatch)) /\ calls[s] = <<>>)

\* C3 witness: a registration with a weak password and another confirmation
\* was refused as a mismatch.
C3_Witness ==
    \E s \in Slots :
        /\ Finished(s, "register")
        /\ request[s].password = "a"
        /\ request[s].confirmPassword = "Abcde1!a"
        /\ request[s].email = "a@b.com"
        /\ result[s] = ReturnError(Some(MsgPasswordsDoNotMatch))
        /\ calls[s] = <<>>

\* C4 as stated: a registration whose password fails the strength pattern
\* returns the strength message and makes no provider call, whatever
\* confirmPassword is.
C4_Original ==
    \A s \in Slots :
        (Finished(s, "register") /\ ~MatchesStrengthPattern(request[s].password))
            => (result[s] = ReturnError(Some(MsgStrength)) /\ calls[s] = <<>>)

\* C4 amended: a registration whose password equals confirmPassword and fails
\* the strength pattern returns the strength message and makes no provider call.
C4_RegisterStrength ==
    \A s \in Slots :
        (/\ Finished(s, "register")
         /\ request[s].password = request[s].confirmPassword
         /\ ~MatchesStrengthPattern(request[s].password))
            => (result[s] = ReturnError(Some(MsgStrength)) /\ calls[s] = <<>>)

\* C4 witness: a registration with the confirmed password "Abcde1aa" (eight
\* characters, no symbol) was refused with the strength message.
C4_Witness ==
    \E s \in Slots :
        /\ Finished(s, "register")
        /\ request[s].password = "Abcde1aa"
        /\ request[s].confirmPassword = "Abcde1aa"
        /\ result[s] = ReturnError(Some(MsgStrength))
        /\ calls[s] = <<>>

\* C5: when the sign-in call returns an error, login returns 'Invalid email or
\* password.' if the message contains 'Invalid login credentials' and 'Could
\* not authenticate user. Please try again.' for every other provider error;
\* {error: null} is returned only when the provider reports no error.
C5_LoginSanitized ==
    \A s \in Slots :
        /\ ProviderReturnedError(s, "signInWithPassword")
             => result[s] = ReturnError(Some(
                    IF /\ ProviderError(s).message # Null
                       /\ Includes(ProviderError(s).message[1], "Invalid login credentials")
                    THEN MsgInvalidLogin
                    ELSE MsgCouldNotAuthenticate))
        /\ (Finished(s, "login") /\ result[s] = ReturnError(Null))
             => (/\ Len(calls[s]) = 2
                 /\ calls[s][2].reply.status = "resolved"
                 /\ calls[s][2].reply.error = Null)

\* C6: when the sign-up call returns an error, register returns 'Email is
\* already in use or invalid.' if the message contains 'email' in any letter
\* case, and 'Registration failed. Please try again.' for every other error,
\* one with an empty or a missing message included; the raw message is never
\* returned.
C6_RegisterSanitized ==
    \A s \in Slots :
        ProviderReturnedError(s, "signUp")
            => /\ result[s] = ReturnError(Some(
                      IF /\ ProviderError(s).message # Null
                         /\ ContainsEmailAnyCase(ProviderError(s).message[1])
                      THEN MsgEmailInUse
                      ELSE MsgRegistrationFailed))
               /\ result[s].value # ProviderError(s).message

\* C6 witness: a sign-up error whose message has 'EMAIL' in capitals was
\* answered with 'Email is already in use or invalid.'
C6_Witness ==
    \E s \in Slots :
        /\ Finished(s, "register")
        /\ ProviderReturnedError(s, "signUp")
        /\ ProviderError(s).message = Some("EMAIL rate limit exceeded")
        /\ result[s] = ReturnError(Some(MsgEmailInUse))

\* C7: a registration with password equal to confirmPassword whose password
\* satisfies the stated policy passes validation and goes on to the provider:
\* the client is asked for, and the sign-up call that follows gets the
\* request's email, password and name unchanged.
C7_PolicyPasses ==
    \A s \in Slots :
        (/\ Finished(s, "register")
         /\ request[s].password = request[s].confirmPassword
         /\ PolicySatisfied(request[s].password))
            => /\ Len(calls[s]) >= 1
               /\ calls[s][1].fn = "createClient"
               /\ calls[s][1].reply.status = "resolved"
                    => /\ Len(calls[s]) = 2
                       /\ calls[s][2].fn = "signUp"
                       /\ calls[s][2].args =
                              <<request[s].email, request[s].password, request[s].name>>

\* C8: every operation ends by returning a value, never by throwing; login,
\* register and logout carry an error as a string in the result's error field.
C8_NeverThrows ==
    \A s \in Slots :
        pc[s] = "done"
            => /\ result[s].outcome = "return"
               /\ (op[s] \in {"login", "register", "logout"} /\ SomethingFailed(s))
                    => result[s].value # Null

\* C9: every failed login (every provider sign-in error, whatever its
\* message) returns the same generic message 'Invalid email or password'.
C9_OneLoginMessage ==
    \A s \in Slots :
        (/\ ProviderReturnedError(s, "signInWithPassword")
         /\ ProviderError(s).message # Null)
            => /\ result[s].outcome = "return"
               /\ result[s].value \in {Some("Invalid email or password"),
                                       Some("Invalid email or password.")}

\* C10: whenever login or register calls the provider (signInWithPassword or
\* signUp), the email passed is non-empty and matches the basic email pattern
\* and the password passed is non-empty.
C10_ProviderGetsValidData ==
    \A s \in Slots :
        \A i \in CallsOf(s, "signInWithPassword") \cup CallsOf(s, "signUp") :
            /\ calls[s][i].args[1] # ""
            /\ MatchesEmailPattern(calls[s][i].args[1])
            /\ calls[s][i].args[2] # ""

====
